---- MODULE Spec2Model ----
(***************************************************************************)
(* Model of the transaction engine of src/transaction/engine.rs.          *)
(*                                                                         *)
(* The ledger (TransactionEngine::clients) is a map from client ids to     *)
(* ClientEntry values; each ClientEntry owns a map from transaction ids to *)
(* TransactionEntry values.  Both HashMaps are modelled as functions whose *)
(* DOMAIN is the set of keys present.  Amounts are f64 in the source; they *)
(* are modelled as exact integers (whole currency units), so the model     *)
(* does not cover floating-point rounding.                                 *)
(*                                                                         *)
(* Besides the engine's own state, the model records for the latest        *)
(* process call its argument (last), the value it returned (ret) and the   *)
(* ledger as it was when the call was made (prev), so that statements      *)
(* about the effect of one call are state predicates.                      *)
(*                                                                         *)
(* Spec is the engine under any sequence of process calls, PairSpec the    *)
(* same over shorter runs, and MainSpec the run of main (src/main.rs): the *)
(* loop over the items of the record iterator, whose content is chosen as  *)
(* it is pulled, and then the loop that writes the account rows.           *)
(***************************************************************************)
EXTENDS Integers, Sequences, FiniteSets, TLC

\* Bounds of the model: transaction ids, amounts, and the number of
\* transactions processed in one run
MaxTx == 2
MaxAmount == 1
MaxSteps == 4
\* ... and the number of records the input file of one run of main holds
MaxRecords == 3
\* ... and the number of transactions processed before a pair of
\* transactions is compared in both orders
MaxPairSteps == 3

\* The two clients of the engine's tests
BOB == 1
ALICE == 2

ClientIds == {BOB, ALICE}
TransactionIds == 1..MaxTx
Amounts == 0..MaxAmount

VARIABLES clients, prev, last, ret, steps

\* History of the run: the (client, id) pairs on which a Chargeback found a
\* disputed record, and those whose record was stored by a Withdrawal that
\* was refused for insufficient funds
VARIABLES charged, rejected

\* The run of main: where it stands (status), the number of items pulled
\* from the record iterator (pos), the latest item pulled (item) and the
\* account rows written to the output so far (written)
VARIABLES status, pos, item, written

engineVars == <<clients, prev, last, ret, steps, charged, rejected>>
mainVars == <<status, pos, item, written>>
vars == <<clients, prev, last, ret, steps, charged, rejected, status, pos, item, written>>

\* Option<T>
None == <<>>
Some(x) == <<x>>

\* HashMap helpers: the empty map, and insertion of a key absent or present
EmptyMap == [k \in {} |-> 0]
MapInsert(m, k, v) == [x \in (DOMAIN m) \cup {k} |-> IF x = k THEN v ELSE m[x]]

\* transaction::TransactionOperation
Deposit(amount) == [kind |-> "Deposit", amount |-> amount]
Withdrawal(amount) == [kind |-> "Withdrawal", amount |-> amount]
Dispute == [kind |-> "Dispute", amount |-> 0]
Resolve == [kind |-> "Resolve", amount |-> 0]
Chargeback == [kind |-> "Chargeback", amount |-> 0]

\* transaction::Transaction
Transaction(client, id, operation) == [client |-> client, id |-> id, operation |-> operation]

\* The value of `last` before any call of process
NoTransaction == [client |-> 0, id |-> 0, operation |-> [kind |-> "Init", amount |-> 0]]

\* engine::TransactionEntry
TransactionEntry(amount, disputed) == [amount |-> amount, disputed |-> disputed]

\* ClientEntry::new
ClientEntryNew(id) ==
    [id |-> id, available |-> 0, held |-> 0, total |-> 0, locked |-> FALSE,
     transactions |-> EmptyMap]

\* ClientEntry::as_account
AsAccount(e) ==
    [client |-> e.id, available |-> e.available, held |-> e.held,
     total |-> e.total, locked |-> e.locked]

\* Mutant of ApplyDeposit: the vacancy test on the transaction id is missing
ApplyDepositNoDuplicateCheck(e, id, amount) ==
    [e EXCEPT !.available = @ + amount,
              !.total = @ + amount,
              !.transactions = MapInsert(@, id, TransactionEntry(amount, FALSE))]

\* Mutant of ApplyDeposit: the amount is credited to available only
ApplyDepositAvailableOnly(e, id, amount) ==
    IF id \notin DOMAIN e.transactions
    THEN [e EXCEPT !.available = @ + amount,
                   !.transactions = MapInsert(@, id, TransactionEntry(amount, FALSE))]
    ELSE e

\* ClientEntry::apply, Deposit arm
ApplyDeposit(e, id, amount) ==
    IF id \notin DOMAIN e.transactions
    THEN [e EXCEPT !.available = @ + amount,
                   !.total = @ + amount,
                   !.transactions = MapInsert(@, id, TransactionEntry(amount, FALSE))]
    ELSE e

\* Mutant of ApplyWithdrawal: the amount is debited from available only
ApplyWithdrawalKeepsTotal(e, id, amount) ==
    IF id \notin DOMAIN e.transactions
    THEN LET available == e.available - amount
             debited == IF available >= 0
                        THEN [e EXCEPT !.available = available]
                        ELSE e
         IN [debited EXCEPT !.transactions = MapInsert(@, id, TransactionEntry(amount, FALSE))]
    ELSE e

\* Mutant of ApplyWithdrawal: the test for sufficient funds is missing
ApplyWithdrawalUnchecked(e, id, amount) ==
    IF id \notin DOMAIN e.transactions
    THEN [e EXCEPT !.available = @ - amount,
                   !.total = @ - amount,
                   !.transactions = MapInsert(@, id, TransactionEntry(amount, FALSE))]
    ELSE e

\* Mutant of ApplyWithdrawal: a refused withdrawal leaves no record
ApplyWithdrawalRecordsCommitted(e, id, amount) ==
    IF id \notin DOMAIN e.transactions /\ e.available - amount >= 0
    THEN [e EXCEPT !.available = @ - amount,
                   !.total = @ - amount,
                   !.transactions = MapInsert(@, id, TransactionEntry(amount, FALSE))]
    ELSE e

\* ClientEntry::apply, Withdrawal arm
ApplyWithdrawal(e, id, amount) ==
    IF id \notin DOMAIN e.transactions
    THEN LET available == e.available - amount
             debited == IF available >= 0
                        THEN [e EXCEPT !.available = available, !.total = @ - amount]
                        ELSE e
         IN [debited EXCEPT !.transactions = MapInsert(@, id, TransactionEntry(amount, FALSE))]
    ELSE e

\* Mutant of ApplyDispute: the amount is held but not taken off available
ApplyDisputeHoldOnly(e, id) ==
    IF id \in DOMAIN e.transactions /\ ~e.transactions[id].disputed
    THEN [e EXCEPT !.held = @ + e.transactions[id].amount,
                   !.transactions[id].disputed = TRUE]
    ELSE e

\* Mutant of ApplyDispute: a dispute locks the account
ApplyDisputeLocks(e, id) ==
    IF id \in DOMAIN e.transactions /\ ~e.transactions[id].disputed
    THEN [e EXCEPT !.available = @ - e.transactions[id].amount,
                   !.held = @ + e.transactions[id].amount,
                   !.locked = TRUE,
                   !.transactions[id].disputed = TRUE]
    ELSE e

\* ClientEntry::apply, Dispute arm
ApplyDispute(e, id) ==
    IF id \in DOMAIN e.transactions /\ ~e.transactions[id].disputed
    THEN [e EXCEPT !.available = @ - e.transactions[id].amount,
                   !.held = @ + e.transactions[id].amount,
                   !.transactions[id].disputed = TRUE]
    ELSE e

\* Mutant of ApplyResolve: resolving a dispute also unlocks the account
ApplyResolveUnlocks(e, id) ==
    IF id \in DOMAIN e.transactions /\ e.transactions[id].disputed
    THEN [e EXCEPT !.available = @ + e.transactions[id].amount,
                   !.held = @ - e.transactions[id].amount,
                   !.locked = FALSE,
                   !.transactions[id].disputed = FALSE]
    ELSE e

\* Mutant of ApplyResolve: the record stays disputed after the resolve
ApplyResolveKeepsFlag(e, id) ==
    IF id \in DOMAIN e.transactions /\ e.transactions[id].disputed
    THEN [e EXCEPT !.available = @ + e.transactions[id].amount,
                   !.held = @ - e.transactions[id].amount]
    ELSE e

\* Mutant of ApplyResolve: the amount is not taken off held
ApplyResolveKeepsHeld(e, id) ==
    IF id \in DOMAIN e.transactions /\ e.transactions[id].disputed
    THEN [e EXCEPT !.available = @ + e.transactions[id].amount,
                   !.transactions[id].disputed = FALSE]
    ELSE e

\* ClientEntry::apply, Resolve arm
ApplyResolve(e, id) ==
    IF id \in DOMAIN e.transactions /\ e.transactions[id].disputed
    THEN [e EXCEPT !.available = @ + e.transactions[id].amount,
                   !.held = @ - e.transactions[id].amount,
                   !.transactions[id].disputed = FALSE]
    ELSE e

\* Mutant of ApplyChargeback: the amount is taken off held only
ApplyChargebackKeepsTotal(e, id) ==
    IF id \in DOMAIN e.transactions /\ e.transactions[id].disputed
    THEN [e EXCEPT !.held = @ - e.transactions[id].amount,
                   !.locked = TRUE]
    ELSE e

\* Mutant of ApplyChargeback: the account is not locked
ApplyChargebackNoLock(e, id) ==
    IF id \in DOMAIN e.transactions /\ e.transactions[id].disputed
    THEN [e EXCEPT !.held = @ - e.transactions[id].amount,
                   !.total = @ - e.transactions[id].amount]
    ELSE e

\* ClientEntry::apply, Chargeback arm
ApplyChargeback(e, id) ==
    IF id \in DOMAIN e.transactions /\ e.transactions[id].disputed
    THEN [e EXCEPT !.held = @ - e.transactions[id].amount,
                   !.total = @ - e.transactions[id].amount,
                   !.locked = TRUE]
    ELSE e

\* Mutant of Apply: a locked account refuses every transaction
ApplyRefusesWhenLocked(e, transaction) ==
    LET id == transaction.id
        op == transaction.operation
    IN IF e.locked
       THEN e
       ELSE CASE op.kind = "Deposit" -> ApplyDeposit(e, id, op.amount)
              [] op.kind = "Withdrawal" -> ApplyWithdrawal(e, id, op.amount)
              [] op.kind = "Dispute" -> ApplyDispute(e, id)
              [] op.kind = "Resolve" -> ApplyResolve(e, id)
              [] op.kind = "Chargeback" -> ApplyChargeback(e, id)

\* ClientEntry::apply: the entry after the transaction (the returned Account
\* is AsAccount of it)
Apply(e, transaction) ==
    LET id == transaction.id
        op == transaction.operation
    IN CASE op.kind = "Deposit" -> ApplyDeposit(e, id, op.amount)
         [] op.kind = "Withdrawal" -> ApplyWithdrawal(e, id, op.amount)
         [] op.kind = "Dispute" -> ApplyDispute(e, id)
         [] op.kind = "Resolve" -> ApplyResolve(e, id)
         [] op.kind = "Chargeback" -> ApplyChargeback(e, id)

\* Mutant of Lookup: get-or-insert for every operation kind
LookupAlwaysInserts(cl, transaction) ==
    IF transaction.client \notin DOMAIN cl
    THEN MapInsert(cl, transaction.client, ClientEntryNew(transaction.client))
    ELSE cl

\* Mutant of Lookup: a deposit inserts a new entry even when one exists
LookupDepositReplaces(cl, transaction) ==
    IF transaction.operation.kind = "Deposit"
    THEN MapInsert(cl, transaction.client, ClientEntryNew(transaction.client))
    ELSE cl

\* TransactionEngine::process, the lookup: the ledger after the entry of the
\* client was looked up (and, for a deposit, inserted when absent)
Lookup(cl, transaction) ==
    IF transaction.operation.kind = "Deposit" /\ transaction.client \notin DOMAIN cl
    THEN MapInsert(cl, transaction.client, ClientEntryNew(transaction.client))
    ELSE cl

\* Mutant of ProcessClients: the transaction is also applied to every other
\* account that records its id
ProcessClientsByTransactionId(cl, transaction) ==
    LET found == Lookup(cl, transaction)
    IN [c \in DOMAIN found |->
           IF c = transaction.client \/ transaction.id \in DOMAIN found[c].transactions
           THEN Apply(found[c], transaction)
           ELSE found[c]]

\* Mutant of ProcessClients: transaction ids are unique over the whole
\* ledger, so a deposit or withdrawal whose id any account records is ignored
ProcessClientsGlobalIds(cl, transaction) ==
    LET found == Lookup(cl, transaction)
        used == \E d \in DOMAIN cl : transaction.id \in DOMAIN cl[d].transactions
    IN IF transaction.client \in DOMAIN found
          /\ ~(transaction.operation.kind \in {"Deposit", "Withdrawal"} /\ used)
       THEN [found EXCEPT ![transaction.client] = Apply(@, transaction)]
       ELSE found

\* TransactionEngine::process: the ledger after the call
ProcessClients(cl, transaction) ==
    LET found == Lookup(cl, transaction)
    IN IF transaction.client \in DOMAIN found
       THEN [found EXCEPT ![transaction.client] = Apply(@, transaction)]
       ELSE found

\* TransactionEngine::process: the value returned
ProcessResult(cl, transaction) ==
    LET after == ProcessClients(cl, transaction)
    IN IF transaction.client \in DOMAIN after
       THEN Some(AsAccount(after[transaction.client]))
       ELSE None

\* TransactionEngine::accounts
Accounts(cl) == {AsAccount(cl[c]) : c \in DOMAIN cl}

\* ClientEntry::apply, Chargeback arm: the chargeback finds a disputed record
ChargebackFindsDisputed(cl, transaction) ==
    /\ transaction.operation.kind = "Chargeback"
    /\ transaction.client \in DOMAIN cl
    /\ transaction.id \in DOMAIN cl[transaction.client].transactions
    /\ cl[transaction.client].transactions[transaction.id].disputed

\* ClientEntry::apply, Withdrawal arm: the id is vacant and the funds are
\* insufficient
WithdrawalRefused(cl, transaction) ==
    /\ transaction.operation.kind = "Withdrawal"
    /\ transaction.client \in DOMAIN cl
    /\ transaction.id \notin DOMAIN cl[transaction.client].transactions
    /\ cl[transaction.client].available - transaction.operation.amount < 0

\* csv::CsvTransactionRecord, with amount an Option<f64>
CsvTransactionRecord(type, client, tx, amount) ==
    [type |-> type, client |-> client, tx |-> tx, amount |-> amount]

\* Items of the record iterator: a record, a read error, or the end of input
\* (NoItem before the first pull)
NoRecord == CsvTransactionRecord("none", 0, 0, None)
NoItem == [tag |-> "none", record |-> NoRecord]
RecordItem(record) == [tag |-> "record", record |-> record]
ReadErrorItem == [tag |-> "error", record |-> NoRecord]
EndItem == [tag |-> "end", record |-> NoRecord]

\* The records a file can hold
TransactionTypes == {"deposit", "withdrawal", "dispute", "resolve", "chargeback"}
Records ==
    {CsvTransactionRecord(type, client, tx, amount) :
        type \in TransactionTypes, client \in ClientIds, tx \in TransactionIds,
        amount \in {None} \cup {Some(a) : a \in Amounts}}

\* TryInto<Transaction> for CsvTransactionRecord: Some(transaction), or None
\* for the conversion error
TryInto(record) ==
    CASE record.type = "deposit" ->
             IF record.amount = None
             THEN None
             ELSE Some(Transaction(record.client, record.tx, Deposit(record.amount[1])))
      [] record.type = "withdrawal" ->
             IF record.amount = None
             THEN None
             ELSE Some(Transaction(record.client, record.tx, Withdrawal(record.amount[1])))
      [] record.type = "dispute" -> Some(Transaction(record.client, record.tx, Dispute))
      [] record.type = "resolve" -> Some(Transaction(record.client, record.tx, Resolve))
      [] record.type = "chargeback" -> Some(Transaction(record.client, record.tx, Chargeback))

\* Every transaction a caller can hand to process
Transactions ==
    {Transaction(c, id, op) :
        c \in ClientIds, id \in TransactionIds,
        op \in {Deposit(a) : a \in Amounts} \cup {Withdrawal(a) : a \in Amounts}
                \cup {Dispute, Resolve, Chargeback}}

\* TransactionEngine::new, and main when it has opened the input and built
\* the engine
Init ==
    /\ clients = EmptyMap
    /\ prev = EmptyMap
    /\ last = NoTransaction
    /\ ret = None
    /\ steps = 0
    /\ charged = {}
    /\ rejected = {}
    /\ status = "reading"
    /\ pos = 0
    /\ item = NoItem
    /\ written = {}

\* One call of TransactionEngine::process, and what the history records
Call(transaction) ==
    /\ steps' = steps + 1
    /\ prev' = clients
    /\ last' = transaction
    /\ clients' = ProcessClients(clients, transaction)
    /\ ret' = ProcessResult(clients, transaction)
    /\ charged' = IF ChargebackFindsDisputed(clients, transaction)
                  THEN charged \cup {<<transaction.client, transaction.id>>}
                  ELSE charged
    /\ rejected' = IF WithdrawalRefused(clients, transaction)
                   THEN rejected \cup {<<transaction.client, transaction.id>>}
                   ELSE rejected

\* One call of TransactionEngine::process by any caller
Process(transaction) ==
    /\ steps < MaxSteps
    /\ Call(transaction)
    /\ UNCHANGED mainVars

ProcessDeposit ==
    \E c \in ClientIds, id \in TransactionIds, amount \in Amounts :
        Process(Transaction(c, id, Deposit(amount)))

ProcessWithdrawal ==
    \E c \in ClientIds, id \in TransactionIds, amount \in Amounts :
        Process(Transaction(c, id, Withdrawal(amount)))

ProcessDispute ==
    \E c \in ClientIds, id \in TransactionIds :
        Process(Transaction(c, id, Dispute))

ProcessResolve ==
    \E c \in ClientIds, id \in TransactionIds :
        Process(Transaction(c, id, Resolve))

ProcessChargeback ==
    \E c \in ClientIds, id \in TransactionIds :
        Process(Transaction(c, id, Chargeback))

Next ==
    \/ ProcessDeposit
    \/ ProcessWithdrawal
    \/ ProcessDispute
    \/ ProcessResolve
    \/ ProcessChargeback

Spec == Init /\ [][Next]_vars

\* One call of TransactionEngine::process by any caller, in the shorter runs
\* on which two orders of a pair of transactions are compared
PairProcess ==
    /\ steps < MaxPairSteps
    /\ \E transaction \in Transactions : Call(transaction)
    /\ UNCHANGED mainVars

PairSpec == Init /\ [][PairProcess]_vars

\* main, one turn of the loop over the records: the iterator yields a record
\* that converts, and the transaction is processed
MainProcess ==
    /\ status = "reading"
    /\ pos < MaxRecords
    /\ \E record \in Records :
           /\ TryInto(record) # None
           /\ item' = RecordItem(record)
           /\ Call(TryInto(record)[1])
    /\ pos' = pos + 1
    /\ UNCHANGED <<status, written>>

\* Mutant of MainConversionError: the record that does not convert is
\* skipped and the loop goes on
MainConversionErrorSkips ==
    /\ status = "reading"
    /\ pos < MaxRecords
    /\ \E record \in Records :
           /\ TryInto(record) = None
           /\ item' = RecordItem(record)
    /\ pos' = pos + 1
    /\ UNCHANGED <<engineVars, status, written>>

\* main, one turn of the loop: the iterator yields a record that does not
\* convert, and `transaction?` returns the error
MainConversionError ==
    /\ status = "reading"
    /\ pos < MaxRecords
    /\ \E record \in Records :
           /\ TryInto(record) = None
           /\ item' = RecordItem(record)
    /\ pos' = pos + 1
    /\ status' = "failed"
    /\ UNCHANGED <<engineVars, written>>

\* main, one turn of the loop: the iterator yields a read error
MainReadError ==
    /\ status = "reading"
    /\ pos < MaxRecords
    /\ item' = ReadErrorItem
    /\ pos' = pos + 1
    /\ status' = "failed"
    /\ UNCHANGED <<engineVars, written>>

\* main: the iterator is exhausted, the loop ends and the writer is built
MainEndOfInput ==
    /\ status = "reading"
    /\ item' = EndItem
    /\ status' = "writing"
    /\ UNCHANGED <<engineVars, pos, written>>

\* Mutant of MainWrite: rows are written while records are still being read
MainWriteEarly ==
    /\ status \in {"reading", "writing"}
    /\ \E account \in Accounts(clients) \ written :
           written' = written \cup {account}
    /\ UNCHANGED <<engineVars, status, pos, item>>

\* main, one turn of the loop over engine.accounts(): a row is written
MainWrite ==
    /\ status = "writing"
    /\ \E account \in Accounts(clients) \ written :
           written' = written \cup {account}
    /\ UNCHANGED <<engineVars, status, pos, item>>

\* main, one turn of the loop over engine.accounts(): the write fails
MainWriteError ==
    /\ status = "writing"
    /\ Accounts(clients) \ written # {}
    /\ status' = "write_failed"
    /\ UNCHANGED <<engineVars, pos, item, written>>

\* main: every account is written and main returns Ok(())
MainOk ==
    /\ status = "writing"
    /\ Accounts(clients) \ written = {}
    /\ status' = "ok"
    /\ UNCHANGED <<engineVars, pos, item, written>>

MainNext ==
    \/ MainProcess
    \/ MainConversionError
    \/ MainReadError
    \/ MainEndOfInput
    \/ MainWrite
    \/ MainWriteError
    \/ MainOk

MainSpec == Init /\ [][MainNext]_vars

(***************************************************************************)
(* Vocabulary of the properties                                            *)
(***************************************************************************)
LastKind == last.operation.kind
LastAmount == last.operation.amount
LastClient == last.client
LastId == last.id
Called == LastKind # "Init"
\* The account of the latest call existed when the call was made
HadAccount == Called /\ LastClient \in DOMAIN prev
\* The transaction id of the latest call was recorded in that account
HadRecord == HadAccount /\ LastId \in DOMAIN prev[LastClient].transactions
Balanced(a) == a.total = a.available + a.held
SameBalances(e, f) ==
    /\ e.available = f.available
    /\ e.held = f.held
    /\ e.total = f.total
    /\ e.locked = f.locked

\* C1: every account known to the engine has total = available + held, in
\* the stored entry, in the snapshot returned by the latest process call and
\* in every snapshot yielded by accounts().
C1_TotalIsAvailablePlusHeld ==
    /\ \A c \in DOMAIN clients : Balanced(clients[c])
    /\ \A i \in 1..Len(ret) : Balanced(ret[i])
    /\ \A a \in Accounts(clients) : Balanced(a)

\* C1 witness: a dispute has just moved funds, leaving the account with
\* non-zero available, held and total, and the call returned its snapshot.
C1_Witness ==
    /\ LastKind = "Dispute"
    /\ ret # None
    /\ LastClient \in DOMAIN clients
    /\ clients[LastClient].held > 0
    /\ clients[LastClient].available > 0
    /\ clients[LastClient] # prev[LastClient]

\* C2 (as claimed): every account has available >= 0 after any sequence of
\* process calls with non-negative amounts.
C2_AvailableNonNegative ==
    \A c \in DOMAIN clients : clients[c].available >= 0

\* C3 (as claimed): every account has total >= 0 and total >= available
\* after any sequence of process calls with non-negative amounts.
C3_TotalAndHeldNonNegative ==
    \A c \in DOMAIN clients :
        /\ clients[c].total >= 0
        /\ clients[c].total >= clients[c].available

\* C4: locked is monotonic: an account that is locked before a process call
\* is still known and still locked after it.
C4_LockedMonotonic ==
    [][\A c \in DOMAIN clients :
          clients[c].locked => (c \in DOMAIN clients' /\ clients'[c].locked)]_vars

\* C4 witness: an account that was already locked has processed a deposit
\* that changed it, and it is still locked.
C4_Witness ==
    /\ HadAccount
    /\ prev[LastClient].locked
    /\ LastKind = "Deposit"
    /\ clients[LastClient] # prev[LastClient]
    /\ clients[LastClient].locked

\* C5: a Withdrawal, Dispute, Resolve or Chargeback for a client without an
\* account returns None and leaves the ledger as it was (no account is
\* created); process returns None in no other case.
C5_UnknownClientIsNoOp ==
    Called =>
        /\ (LastKind # "Deposit" /\ ~HadAccount) =>
               (ret = None /\ clients = prev /\ LastClient \notin DOMAIN clients)
        /\ ret = None => (LastKind # "Deposit" /\ ~HadAccount)

\* C5 witness: a dispute for a client without an account named a
\* transaction id recorded in another client's account.
C5_Witness ==
    /\ LastKind = "Dispute"
    /\ ~HadAccount
    /\ ret = None
    /\ \E d \in DOMAIN prev : LastId \in DOMAIN prev[d].transactions

\* C6: a Deposit or Withdrawal whose transaction id is already in the
\* client's records leaves the account (balances, locked flag and every
\* record) exactly as it was.
C6_DuplicateIdIgnored ==
    (LastKind \in {"Deposit", "Withdrawal"} /\ HadRecord) =>
        clients[LastClient] = prev[LastClient]

\* C6 witness: a deposit of a positive amount reused an id that is recorded
\* with a different amount.
C6_Witness ==
    /\ LastKind = "Deposit"
    /\ HadRecord
    /\ LastAmount > 0
    /\ prev[LastClient].transactions[LastId].amount # LastAmount

\* C7: a Deposit with an id not yet recorded creates the account if absent
\* (zero balances, unlocked), adds the amount to available and total, leaves
\* held and locked alone, records {amount, disputed = false} under the id,
\* and returns the snapshot of these values.
C7_FreshDeposit ==
    (LastKind = "Deposit" /\ ~HadRecord) =>
        LET c == LastClient
            before == IF HadAccount
                      THEN prev[c]
                      ELSE [id |-> c, available |-> 0, held |-> 0, total |-> 0,
                            locked |-> FALSE, transactions |-> EmptyMap]
            after == clients[c]
        IN /\ c \in DOMAIN clients
           /\ after.id = c
           /\ after.available = before.available + LastAmount
           /\ after.total = before.total + LastAmount
           /\ after.held = before.held
           /\ after.locked = before.locked
           /\ DOMAIN after.transactions = DOMAIN before.transactions \cup {LastId}
           /\ after.transactions[LastId] = [amount |-> LastAmount, disputed |-> FALSE]
           /\ \A t \in DOMAIN before.transactions :
                  after.transactions[t] = before.transactions[t]
           /\ ret = Some([client |-> c,
                          available |-> before.available + LastAmount,
                          held |-> before.held,
                          total |-> before.total + LastAmount,
                          locked |-> before.locked])

\* C7 witness: a first deposit of a positive amount has created an account.
C7_Witness ==
    /\ LastKind = "Deposit"
    /\ Called
    /\ ~HadAccount
    /\ LastAmount > 0
    /\ LastClient \in DOMAIN clients

\* C8: a Withdrawal with a fresh id on an existing account that has
\* available - amount >= 0 takes the amount off available and total, leaves
\* held and locked alone and records {amount, disputed = false}.
C8_FundedWithdrawal ==
    (/\ LastKind = "Withdrawal"
     /\ HadAccount
     /\ ~HadRecord
     /\ prev[LastClient].available - LastAmount >= 0) =>
        LET before == prev[LastClient]
            after == clients[LastClient]
        IN /\ after.available = before.available - LastAmount
           /\ after.total = before.total - LastAmount
           /\ after.held = before.held
           /\ after.locked = before.locked
           /\ DOMAIN after.transactions = DOMAIN before.transactions \cup {LastId}
           /\ after.transactions[LastId] = [amount |-> LastAmount, disputed |-> FALSE]

\* C8 witness: a withdrawal of a positive amount that the available funds
\* cover was committed.
C8_Witness ==
    /\ LastKind = "Withdrawal"
    /\ HadAccount
    /\ ~HadRecord
    /\ LastAmount > 0
    /\ prev[LastClient].available >= LastAmount
    /\ clients[LastClient].total < prev[LastClient].total

\* C9: a Withdrawal of more than the available funds of an existing account
\* is rejected silently: process returns the account's snapshot, and
\* available, held, total and locked are what they were.
C9_UnfundedWithdrawalRejected ==
    (/\ LastKind = "Withdrawal"
     /\ HadAccount
     /\ LastAmount > prev[LastClient].available) =>
        /\ SameBalances(clients[LastClient], prev[LastClient])
        /\ ret = Some([client |-> LastClient,
                       available |-> prev[LastClient].available,
                       held |-> prev[LastClient].held,
                       total |-> prev[LastClient].total,
                       locked |-> prev[LastClient].locked])

\* C9 witness: a withdrawal with a fresh id asked for more than the
\* available funds of an account whose total is positive.
C9_Witness ==
    /\ LastKind = "Withdrawal"
    /\ HadAccount
    /\ ~HadRecord
    /\ prev[LastClient].total > 0
    /\ prev[LastClient].available >= 0
    /\ LastAmount > prev[LastClient].available
    /\ ret # None

C12_Chargeback ==
    (LastKind = "Chargeback" /\ HadAccount) =>
        LET before == prev[LastClient]
            after == clients[LastClient]
        IN IF ~HadRecord \/ ~before.transactions[LastId].disputed
           THEN after = before
           ELSE /\ after.held = before.held - before.transactions[LastId].amount
                /\ after.total = before.total - before.transactions[LastId].amount
                /\ after.available = before.available
                /\ after.locked
                /\ after.transactions = before.transactions
                /\ after.transactions[LastId].disputed

\* C12 witness: a chargeback has taken effect on an unlocked account, on a
\* disputed record of a positive amount.
C12_Witness ==
    /\ LastKind = "Chargeback"
    /\ HadRecord
    /\ prev[LastClient].transactions[LastId].disputed
    /\ prev[LastClient].transactions[LastId].amount > 0
    /\ ~prev[LastClient].locked
    /\ clients[LastClient].locked

\* C13 (as claimed): once a Chargeback has taken effect on id t of an
\* account, every later Dispute, Resolve or Chargeback of t on that account
\* leaves available, held and total as they were.
C13_ChargedBackIsTerminal ==
    [][(/\ last'.operation.kind \in {"Dispute", "Resolve", "Chargeback"}
        /\ <<last'.client, last'.id>> \in charged) =>
           /\ clients'[last'.client].available = clients[last'.client].available
           /\ clients'[last'.client].held = clients[last'.client].held
           /\ clients'[last'.client].total = clients[last'.client].total]_vars

\* C14: the accounts known to the engine are exactly the clients for which
\* a Deposit has been processed (a call adds the client of a Deposit and
\* nothing else); no call removes an account or drops or alters one of its
\* records; accounts() yields one snapshot per known account, equal to its
\* current available, held, total and locked.
C14_AccountsCreatedByDeposit ==
    /\ DOMAIN clients =
           DOMAIN prev \cup (IF LastKind = "Deposit" THEN {LastClient} ELSE {})
    /\ \A c \in DOMAIN prev :
           /\ DOMAIN prev[c].transactions \subseteq DOMAIN clients[c].transactions
           /\ \A t \in DOMAIN prev[c].transactions :
                  clients[c].transactions[t].amount = prev[c].transactions[t].amount
    /\ Cardinality(Accounts(clients)) = Cardinality(DOMAIN clients)
    /\ \A c \in DOMAIN clients :
           [client |-> c, available |-> clients[c].available, held |-> clients[c].held,
            total |-> clients[c].total, locked |-> clients[c].locked] \in Accounts(clients)

\* C14 witness: both clients have an account, and the latest call was a
\* deposit with a fresh id to an account that already held a record.
C14_Witness ==
    /\ DOMAIN clients = ClientIds
    /\ LastKind = "Deposit"
    /\ HadAccount
    /\ ~HadRecord
    /\ prev[LastClient].transactions # EmptyMap

\* C16: a process call for client c leaves the account of every other
\* client d as it was (balances, locked flag, records), and creates none.
C16_Frame ==
    Called =>
        /\ \A d \in DOMAIN prev : d # LastClient => clients[d] = prev[d]
        /\ \A d \in DOMAIN clients : d # LastClient => d \in DOMAIN prev

\* C16 witness: a call changed the account of its client while its
\* transaction id was also recorded, undisputed, in another client's account.
C16_Witness ==
    /\ HadAccount
    /\ clients[LastClient] # prev[LastClient]
    /\ LastKind = "Dispute"
    /\ \E d \in DOMAIN prev :
           /\ d # LastClient
           /\ LastId \in DOMAIN prev[d].transactions
           /\ ~prev[d].transactions[LastId].disputed

\* C17: transactions of different clients commute: for the ledger before
\* the latest call and every transaction t of another client, processing t
\* and then the latest transaction gives the same ledger and the same two
\* return values as processing the latest transaction and then t.
C17_CrossClientCommute ==
    Called =>
        \A t \in Transactions :
            t.client # LastClient =>
                /\ ProcessClients(ProcessClients(prev, t), last) = ProcessClients(clients, t)
                /\ ProcessResult(ProcessClients(prev, t), last) = ret
                /\ ProcessResult(prev, t) = ProcessResult(clients, t)

\* C17 witness: the latest call changed its client's account while the
\* other client had an account recording the same transaction id.
C17_Witness ==
    /\ HadAccount
    /\ clients[LastClient] # prev[LastClient]
    /\ LastKind = "Dispute"
    /\ \E d \in DOMAIN prev :
           d # LastClient /\ LastId \in DOMAIN prev[d].transactions

\* C19: an account is locked exactly if a Chargeback on it has found a
\* disputed record: a new account is unlocked, locked holds iff the history
\* records such a chargeback, and Deposit, Withdrawal, Dispute and Resolve
\* leave locked as it was.
C19_LockedIffChargedBack ==
    /\ \A c \in DOMAIN clients :
           clients[c].locked <=> (\E t \in TransactionIds : <<c, t>> \in charged)
    /\ \A p \in charged : p[1] \in DOMAIN clients
    /\ (LastKind \in {"Deposit", "Withdrawal", "Dispute", "Resolve"}
        /\ LastClient \in DOMAIN clients) =>
           clients[LastClient].locked = (IF HadAccount THEN prev[LastClient].locked ELSE FALSE)

\* C19 witness: one account is locked after a chargeback and the other,
\* which has a record of its own, is not.
C19_Witness ==
    /\ \E c \in DOMAIN clients : clients[c].locked /\ \E t \in TransactionIds : <<c, t>> \in charged
    /\ \E d \in DOMAIN clients :
           /\ ~clients[d].locked
           /\ clients[d].transactions # EmptyMap

\* C20: a Withdrawal refused for insufficient funds still stores a record
\* {amount, disputed = false} under its id; a later Deposit or Withdrawal
\* with that id is ignored, and a later Dispute of that id takes the
\* recorded amount off available and adds it to held.
C20_RefusedWithdrawalKeepsId ==
    /\ (/\ LastKind = "Withdrawal"
        /\ HadAccount
        /\ ~HadRecord
        /\ prev[LastClient].available - LastAmount < 0) =>
           /\ <<LastClient, LastId>> \in rejected
           /\ LastId \in DOMAIN clients[LastClient].transactions
           /\ clients[LastClient].transactions[LastId] =
                  [amount |-> LastAmount, disputed |-> FALSE]
           /\ SameBalances(clients[LastClient], prev[LastClient])
    /\ (/\ LastKind \in {"Deposit", "Withdrawal"}
        /\ HadRecord
        /\ <<LastClient, LastId>> \in rejected) =>
           clients[LastClient] = prev[LastClient]
    /\ (/\ LastKind = "Dispute"
        /\ HadRecord
        /\ <<LastClient, LastId>> \in rejected
        /\ ~prev[LastClient].transactions[LastId].disputed) =>
           /\ clients[LastClient].available =
                  prev[LastClient].available - prev[LastClient].transactions[LastId].amount
           /\ clients[LastClient].held =
                  prev[LastClient].held + prev[LastClient].transactions[LastId].amount
           /\ clients[LastClient].total = prev[LastClient].total

\* C20 witness: a dispute named the id of a refused withdrawal of a positive
\* amount and moved that amount, which was never debited, into held.
C20_Witness ==
    /\ LastKind = "Dispute"
    /\ HadRecord
    /\ <<LastClient, LastId>> \in rejected
    /\ prev[LastClient].transactions[LastId].amount > 0
    /\ clients[LastClient].held > prev[LastClient].held

\* The latest item pulled from the record iterator is a failure: a read
\* error, or a record that does not convert
ItemFails ==
    \/ item.tag = "error"
    \/ item.tag = "record" /\ TryInto(item.record) = None

\* C15: main applies the records in the order it pulls them and stops at
\* the first read or conversion failure: a record that converts is processed
\* when it is pulled, so the transactions processed are those of all records
\* pulled (all but the failing one after a failure); once failed, nothing
\* more is applied and the run never becomes a success.
C15_StopsAtFirstFailure ==
    [][/\ (status' = "failed") <=> ItemFails'
       /\ steps' = (IF status' = "failed" THEN pos' - 1 ELSE pos')
       /\ (pos' = pos + 1 /\ ~ItemFails') =>
              /\ last' = TryInto(item'.record)[1]
              /\ clients' = ProcessClients(clients, last')
       /\ (pos' = pos + 1 /\ ItemFails') => clients' = clients
       /\ status = "failed" => (status' = "failed" /\ clients' = clients)]_vars

\* C15 witness: the run failed on a record that does not convert, after two
\* transactions were applied.
C15_Witness ==
    /\ status = "failed"
    /\ item.tag = "record"
    /\ steps = 2
    /\ pos = 3
    /\ clients # EmptyMap

\* C18: account rows are written only after the input is exhausted without
\* error: no row exists while main is still reading or after it failed on a
\* record, and every row written is the snapshot of an account of the final
\* ledger.
C18_RowsOnlyAfterInput ==
    /\ status \in {"reading", "failed"} => written = {}
    /\ written # {} => (item.tag = "end" /\ steps = pos)
    /\ written \subseteq Accounts(clients)
    /\ status = "ok" => written = Accounts(clients)

\* C18 witness: a run over three records ended in success with the rows of
\* both accounts written.
C18_Witness ==
    /\ status = "ok"
    /\ pos = 3
    /\ Cardinality(written) = 2

\* C21: the locked flag does not gate processing: the latest call left its
\* account with the available, held, total and records that the same
\* transaction gives on the account that differs only in locked; and an
\* account that was locked still took a deposit with a fresh id, and a
\* withdrawal with a fresh id that its funds cover.
C21_LockedDoesNotGate ==
    HadAccount =>
        LET before == prev[LastClient]
            after == clients[LastClient]
            twin == Apply([before EXCEPT !.locked = ~before.locked], last)
        IN /\ twin.available = after.available
           /\ twin.held = after.held
           /\ twin.total = after.total
           /\ twin.transactions = after.transactions
           /\ (before.locked /\ ~HadRecord /\ LastKind = "Deposit") =>
                  /\ after.available = before.available + LastAmount
                  /\ LastId \in DOMAIN after.transactions
           /\ (/\ before.locked
               /\ ~HadRecord
               /\ LastKind = "Withdrawal"
               /\ before.available - LastAmount >= 0) =>
                  /\ after.available = before.available - LastAmount
                  /\ LastId \in DOMAIN after.transactions

\* C21 witness: a locked account took a deposit of a positive amount under
\* a fresh id, and its available funds grew.
C21_Witness ==
    /\ HadAccount
    /\ prev[LastClient].locked
    /\ LastKind = "Deposit"
    /\ ~HadRecord
    /\ LastAmount > 0
    /\ clients[LastClient].available > prev[LastClient].available

\* The sum of the recorded amounts of the disputed records among ids
RECURSIVE DisputedSum(_, _)
DisputedSum(records, ids) ==
    IF ids = {}
    THEN 0
    ELSE LET t == CHOOSE x \in ids : TRUE
         IN (IF records[t].disputed THEN records[t].amount ELSE 0)
            + DisputedSum(records, ids \ {t})

====
